---- MODULE Spec2Model ----
(***************************************************************************)
(* Skematic: the validate engine (validate, _checkKeys, _validate,         *)
(* _sparse), the transform registry (transform, add, available), the      *)
(* strip utility and the format pass.                                      *)
(*                                                                         *)
(* A JavaScript value is a record [t, s, n, c]: its type tag, its text (a   *)
(* string), its number (a number; 1/0 for true/false; the length of an     *)
(* array) and its own properties (an object's keys, an array's indexes).   *)
(* Models (schemas), field specs, data records and error trees are all     *)
(* objects, exactly as in the source, so that a field spec handed to a     *)
(* routine that expects a model is read the way JavaScript reads it.       *)
(* for-in visits the own keys of an object in the order of KeyOrder.       *)
(* A field spec declares its sub-model under the key `model`, the key      *)
(* that _validate reads (scm.model).                                       *)
(* Key names and transform names are ordinary names (no member of         *)
(* Object.prototype).  An object compared by reference carries the name of *)
(* its reference in s.  checkValue, the casters and format are not among   *)
(* the sources at hand and follow their documented behaviour.              *)
(***************************************************************************)
EXTENDS Integers, Sequences, FiniteSets, TLC

VARIABLES
  model,        \* the model (schema) of the call
  data,         \* the caller's data: the record the caller holds
  opts,         \* the options of the validate call
  pc,           \* "ready" before the call, "done" after it
  result,       \* what validate returned
  _transforms,  \* the registry of named transforms (module state)
  addLog,       \* the transform.add calls made so far, in order
  call,         \* the last call of transform / available / strip / format
  ret           \* what that call returned

vars == <<model, data, opts, pc, result, _transforms, addLog, call, ret>>

----------------------------------------------------------------------------
(* JavaScript values *)

Val(t, s, n, c) == [t |-> t, s |-> s, n |-> n, c |-> c]

Digits == << "0", "1", "2", "3", "4", "5", "6", "7", "8", "9" >>
DigitValue(c) == (CHOOSE i \in 1..Len(Digits) : Digits[i] = c) - 1

\* String(n) of an integer
RECURSIVE NumStr(_)
NumStr(n) ==
  IF n < 0 THEN "-" \o NumStr(0 - n)
  ELSE IF n < 10 THEN Digits[n + 1]
  ELSE NumStr(n \div 10) \o Digits[(n % 10) + 1]

\* The number a string of decimal digits writes
RECURSIVE ParseNum(_)
ParseNum(s) ==
  IF s = "" THEN 0
  ELSE 10 * ParseNum(SubSeq(s, 1, Len(s) - 1)) + DigitValue(SubSeq(s, Len(s), Len(s)))

\* String(idx) of an array index; position i of a sequence is index i - 1
IdxKey(i) == NumStr(i - 1)
IdxPos(k) == ParseNum(k) + 1

Undef == Val("undefined", "", 0, << >>)
Null == Val("null", "", 0, << >>)
Str(s) == Val("string", s, 0, << >>)
Num(n) == Val("number", "", n, << >>)
Bool(b) == Val("boolean", "", IF b THEN 1 ELSE 0, << >>)
Arr(q) == Val("array", "", Len(q), [k \in {IdxKey(i) : i \in 1..Len(q)} |-> q[IdxPos(k)]])
Obj(f) == Val("object", "", 0, f)
EmptyObj == Obj(<< >>)

\* The value an exception leaves in place of a result
Thrown == Val("throw", "TypeError", 0, << >>)

\* o[k] / o.k : an absent property reads as undefined; a string has its
\* characters under their indexes
Get(o, k) ==
  IF o.t = "object" /\ k \in DOMAIN o.c THEN o.c[k]
  ELSE IF o.t = "string" /\ \E i \in 1..Len(o.s) : IdxKey(i) = k
    THEN Str(SubSeq(o.s, IdxPos(k), IdxPos(k)))
  ELSE Undef

\* Element i (from 1) of an array
Elem(a, i) == a.c[IdxKey(i)]

\* JavaScript truthiness (the `!x` tests of the source)
Truthy(x) ==
  CASE x.t = "undefined" -> FALSE
    [] x.t = "null" -> FALSE
    [] x.t = "boolean" -> x.n = 1
    [] x.t = "number" -> x.n # 0
    [] x.t = "string" -> x.s # ""
    [] OTHER -> TRUE

\* The order in which for-in visits own keys
KeyOrder ==
  << "0", "1", "2", "3", "a", "b", "x", "y", "z",
     "type", "required", "allowNull", "rules", "default", "model", "min", "max",
     "data", "valid", "errors", "id", "_id",
     "kkkkkkkkkkkkkkkkkkkkkkkkkkkkkkkkkkkkkkkkkkkkk11111",
     "kkkkkkkkkkkkkkkkkkkkkkkkkkkkkkkkkkkkkkkkkkkkk22222",
     "kkkkkkkkkkkkkkkkkkkkkkkkkkkkkkkkkkkkkkkkkkkkk333",
     "kkkkkkkkkkkkkkkkkkkkkkkkkkkkkkkkkkkkkkkkkkkkk4444" >>

\* for (let key in x)
ForIn(x) ==
  CASE x.t = "object" -> SelectSeq(KeyOrder, LAMBDA k : k \in DOMAIN x.c)
    [] x.t = "array" -> [i \in 1..x.n |-> IdxKey(i)]
    [] x.t = "string" -> [i \in 1..Len(x.s) |-> IdxKey(i)]
    [] OTHER -> << >>

\* Object.keys(x).length
KeysLength(x) ==
  CASE x.t = "object" -> Cardinality(DOMAIN x.c)
    [] x.t = "array" -> x.n
    [] x.t = "string" -> Len(x.s)
    [] OTHER -> 0

\* A validation result {valid, errors}, and a raised exception
Result(valid, errors) == [threw |-> FALSE, valid |-> valid, errors |-> errors]
Threw == [threw |-> TRUE, valid |-> FALSE, errors |-> Thrown]
IsThrow(r) == r.threw
NoResult == [threw |-> FALSE, valid |-> FALSE, errors |-> Undef]

----------------------------------------------------------------------------
(* Collaborators of validate that live in other files of the repository:   *)
(* is, Rules.isEmpty, setDefault, checkValue                               *)

\* is.type(v)
is_type(x) == x.t

\* is.object(v): a keyed object, neither an array nor null
is_object(x) == x.t = "object"

\* Rules.isEmpty: undefined, null, empty string, empty array/object
isEmpty(x) ==
  CASE x.t = "undefined" -> TRUE
    [] x.t = "null" -> TRUE
    [] x.t = "string" -> x.s = ""
    [] x.t = "array" -> x.n = 0
    [] x.t = "object" -> DOMAIN x.c = {}
    [] OTHER -> FALSE

\* setDefault(v, scm): the default, when one is declared and v is empty
setDefault(x, scm) ==
  IF Get(scm, "default") # Undef /\ isEmpty(x) THEN Get(scm, "default") ELSE x

\* is[type](v) for the type tags
isOfType(x, tag) ==
  CASE tag = "string" -> x.t = "string"
    [] tag = "number" -> x.t = "number"
    [] tag = "integer" -> x.t = "number"
    [] tag = "boolean" -> x.t = "boolean"
    [] tag = "array" -> x.t = "array"
    [] tag = "object" -> x.t = "object"
    [] OTHER -> FALSE

\* Rules.min(v, n), Rules.max(v, n)
ruleMin(x, n) == x.t = "number" /\ n.t = "number" /\ x.n >= n.n
ruleMax(x, n) == x.t = "number" /\ n.t = "number" /\ x.n <= n.n

\* Rules[name](v, arg) for the rules used: min and max
rulePasses(name, x, arg) ==
  CASE name = "min" -> ruleMin(x, arg)
    [] name = "max" -> ruleMax(x, arg)
    [] OTHER -> TRUE

\* The message of failing rule name on a field with the errors config
\* scm.errors, with the default first
errorMessageDefaultFirst(scm, name) ==
  LET E == Get(scm, "errors") IN
  IF E.t = "object" /\ Get(E, "default") # Undef THEN Get(E, "default")
  ELSE IF E.t = "object" /\ Get(E, name) # Undef THEN Get(E, name)
  ELSE IF E.t = "string" THEN E
  ELSE Str("Failed: " \o name)

\* The message of failing rule name on a field with the errors config
\* scm.errors
errorMessage(scm, name) ==
  LET E == Get(scm, "errors") IN
  IF E.t = "object" /\ Get(E, name) # Undef THEN Get(E, name)
  ELSE IF E.t = "object" /\ Get(E, "default") # Undef THEN Get(E, "default")
  ELSE IF E.t = "string" THEN E
  ELSE Str("Failed: " \o name)

\* for (key in scm.rules): the messages of the rules that fail, from
\* position i of the rule names on
RECURSIVE forInRules(_, _, _, _)
forInRules(ks, i, x, scm) ==
  IF i > Len(ks) THEN << >>
  ELSE IF rulePasses(ks[i], x, Get(scm, "rules").c[ks[i]])
    THEN forInRules(ks, i + 1, x, scm)
    ELSE << errorMessage(scm, ks[i]) >> \o forInRules(ks, i + 1, x, scm)

\* The messages of the declared rules that fail
ruleErrors(x, scm) ==
  IF Get(scm, "rules").t = "object"
    THEN forInRules(ForIn(Get(scm, "rules")), 1, x, scm)
    ELSE << >>

\* checkValue(val, model, data, opts): the scalar check, a sequence of messages
checkValue(val, scm, context, o) ==
  LET x == setDefault(val, scm) IN
  IF Get(scm, "allowNull") = Bool(FALSE) /\ (x = Null \/ x = Undef)
    THEN << Str("Failed: allowNull") >>
  ELSE IF x = Null /\ ~Truthy(Get(scm, "required")) THEN << >>
  ELSE IF Truthy(Get(scm, "required")) /\ isEmpty(x) THEN << Str("Failed: required") >>
  ELSE IF x = Undef THEN << >>
  ELSE
    LET ty == Get(scm, "type")
        typeErr == IF ty.t = "string" /\ ~isOfType(x, ty.s)
                     THEN << Str("Not of type: " \o ty.s) >>
                     ELSE << >>
    IN typeErr \o ruleErrors(x, scm)

----------------------------------------------------------------------------
(* _checkKeys *)

MAX_USER_KEY_LEN == 48

\* Sanitize user keylength, keeping MAX_USER_KEY_LEN characters before '...'
shortKeyKeepingMax(key) ==
  IF Len(key) > MAX_USER_KEY_LEN
    THEN SubSeq(key, 1, MAX_USER_KEY_LEN) \o "..."
    ELSE key

\* Sanitize user keylength
shortKey(key) ==
  IF Len(key) > MAX_USER_KEY_LEN
    THEN SubSeq(key, 1, MAX_USER_KEY_LEN - 3) \o "..."
    ELSE key

\* The keys of data that the loop of _checkKeys reports
unknownKeys(m, d) == {k \in DOMAIN d.c : ~Truthy(Get(m, k))}

_checkKeys(m, d) ==
  IF ~is_object(d)
    THEN Result(FALSE, Obj([k \in {"data"} |-> Arr(<< Str("invalidObject") >>)]))
    ELSE Result(unknownKeys(m, d) = {},
                Obj([sk \in {shortKey(k) : k \in unknownKeys(m, d)} |->
                       Arr(<< Str("invalidKey") >>)]))

----------------------------------------------------------------------------
(* _validate *)

RECURSIVE _validate(_, _, _, _)
RECURSIVE forEachElement(_, _, _, _, _, _)
RECURSIVE forInModel(_, _, _, _, _, _)

\* The outcome of one array element: its errors, NoError, or Thrown
NoError == Undef

elementErrors(val, sub, d, o) ==
  IF is_type(val) = "object"
    THEN LET arsub == _validate(val, sub, o, EmptyObj) IN
         IF IsThrow(arsub) THEN Thrown
         ELSE IF ~arsub.valid THEN arsub.errors
         ELSE NoError
    ELSE LET er == checkValue(val, sub, d, o) IN
         IF Len(er) > 0 THEN Arr(er) ELSE NoError

\* v.forEach((val, idx) => ...): the entries errs[key][idx], from position i on;
\* acc is errs[key] so far (empty while errs[key] is unset)
forEachElement(v, i, sub, d, o, acc) ==
  IF i > v.n THEN Obj(acc)
  ELSE LET e == elementErrors(Elem(v, i), sub, d, o) IN
       IF e = Thrown THEN Thrown
       ELSE IF e = NoError THEN forEachElement(v, i + 1, sub, d, o, acc)
       ELSE forEachElement(v, i + 1, sub, d, o, (IdxKey(i) :> e) @@ acc)

\* If it's not required and the default value is 'empty', skip it
\* UNLESS it has other rules defined
skipField(scm, v) ==
  LET isRequired == Truthy(Get(scm, "required")) \/ Get(scm, "allowNull") = Bool(FALSE)
      rules == Get(scm, "rules")
      hasRules == KeysLength(IF Truthy(rules) THEN rules ELSE EmptyObj) # 0
      hasEmptyDefault == isEmpty(setDefault(v, scm))
  IN ~hasRules /\ ~isRequired /\ hasEmptyDefault

\* The array test looking at the declared type only
isArrayFieldDeclaredOnly(scm, v) == Get(scm, "type") = Str("array")

\* The array test of a sub-model field
isArrayField(scm, v) == Get(scm, "type") = Str("array") \/ v.t = "array"

\* The value with which _validate leaves the loop when a sub-object fails
\* its key check: return (errs[key] = checkedKeys)
subKeyCheckFailure(errs, key, checkedKeys) == checkedKeys

\* for (let key in model) { ... } from position i of the key list ks on,
\* followed by the return of _validate
forInModel(ks, i, d, m, o, errs) ==
  IF i > Len(ks)
    THEN IF DOMAIN errs = {} THEN Result(TRUE, Null) ELSE Result(FALSE, Obj(errs))
  ELSE
    LET key == ks[i]
        scm == Get(m, key)
        v == Get(d, key)
        continue == forInModel(ks, i + 1, d, m, o, errs)
    IN
    IF ~Truthy(scm) THEN continue
    ELSE IF skipField(scm, v) THEN continue
    ELSE IF Truthy(Get(scm, "model")) THEN
      IF isArrayField(scm, v) THEN
        IF ~Truthy(v) THEN continue
        ELSE IF v.t # "array" THEN Threw
        ELSE LET sub == forEachElement(v, 1, Get(scm, "model"), d, o, << >>) IN
             IF sub = Thrown THEN Threw
             ELSE IF DOMAIN sub.c = {} THEN continue
             ELSE forInModel(ks, i + 1, d, m, o, (key :> sub) @@ errs)
      ELSE
        LET checkedKeys == _checkKeys(Get(scm, "model"), v) IN
        IF ~checkedKeys.valid THEN subKeyCheckFailure(errs, key, checkedKeys)
        ELSE LET sub == _validate(v, Get(scm, "model"), o, EmptyObj) IN
             IF IsThrow(sub) THEN Threw
             ELSE IF ~sub.valid
               THEN forInModel(ks, i + 1, d, m, o, (key :> sub.errors) @@ errs)
             ELSE continue
    ELSE
      LET errors == checkValue(v, scm, d, o) IN
      IF Len(errors) > 0
        THEN forInModel(ks, i + 1, d, m, o, (key :> Arr(errors)) @@ errs)
        ELSE continue

\* _validate answering a passing scalar with an empty array of errors
_validateEmptyErrors(d, m, o, parentData) ==
  IF ~is_object(d)
    THEN LET res == checkValue(d, m, parentData, o) IN
         IF Len(res) > 0 THEN Result(FALSE, Arr(res)) ELSE Result(TRUE, Arr(<< >>))
    ELSE forInModel(ForIn(m), 1, d, m, o, << >>)

_validate(d, m, o, parentData) ==
  IF ~is_object(d)
    THEN LET res == checkValue(d, m, parentData, o) IN
         IF Len(res) > 0 THEN Result(FALSE, Arr(res)) ELSE Result(TRUE, Null)
    ELSE forInModel(ForIn(m), 1, d, m, o, << >>)

----------------------------------------------------------------------------
(* _sparse *)

RECURSIVE forInData(_, _, _, _, _, _)

\* forInData reporting a key without a model field as an invalid key
forInDataRejectingUnknown(ks, i, d, m, o, acc) ==
  IF i > Len(ks) THEN Result(acc[1], Obj(acc[2]))
  ELSE
    LET key == ks[i] IN
    IF ~Truthy(Get(m, key))
      THEN forInData(ks, i + 1, d, m, o,
                     << FALSE, (key :> Arr(<< Str("invalidKey") >>)) @@ acc[2] >>)
    ELSE LET out == _validate(Get(d, key), Get(m, key), o, d) IN
         IF IsThrow(out) THEN Threw
         ELSE IF ~out.valid
           THEN forInData(ks, i + 1, d, m, o, << FALSE, (key :> out.errors) @@ acc[2] >>)
         ELSE forInData(ks, i + 1, d, m, o, acc)

\* for (let key in data) { ... } of _sparse from position i on, then its return;
\* acc is <<isValid, errs>>
forInData(ks, i, d, m, o, acc) ==
  IF i > Len(ks) THEN Result(acc[1], Obj(acc[2]))
  ELSE
    LET key == ks[i] IN
    IF ~Truthy(Get(m, key)) THEN forInData(ks, i + 1, d, m, o, acc)
    ELSE LET out == _validate(Get(d, key), Get(m, key), o, d) IN
         IF IsThrow(out) THEN Threw
         ELSE IF ~out.valid
           THEN forInData(ks, i + 1, d, m, o, << FALSE, (key :> out.errors) @@ acc[2] >>)
         ELSE forInData(ks, i + 1, d, m, o, acc)

\* _sparse walking the keys of the model instead of the keys of data
_sparseOverModel(d, m, o) == forInData(ForIn(m), 1, d, m, o, << TRUE, << >> >>)

_sparse(d, m, o) == forInData(ForIn(d), 1, d, m, o, << TRUE, << >> >>)

----------------------------------------------------------------------------
(* validate *)

\* validate going on to normal validation after a failed strict key check
validateIgnoringKeyCheck(m, d, o) ==
  IF o.keyCheckOnly THEN _checkKeys(m, d)
  ELSE IF o.sparse THEN _sparse(d, m, o)
  ELSE _validate(d, m, o, EmptyObj)

\* validate treating keyCheckOnly as strict: normal validation follows a
\* passed key check
validateKeyCheckThenRest(m, d, o) ==
  IF (o.keyCheckOnly \/ o.strict) /\ ~_checkKeys(m, d).valid THEN _checkKeys(m, d)
  ELSE IF o.sparse THEN _sparse(d, m, o)
  ELSE _validate(d, m, o, EmptyObj)

\* validate answering a strict call with the key check alone
validateStrictKeyCheckAlone(m, d, o) ==
  IF o.keyCheckOnly \/ o.strict THEN _checkKeys(m, d)
  ELSE IF o.sparse THEN _sparse(d, m, o)
  ELSE _validate(d, m, o, EmptyObj)

validate(m, d, o) ==
  IF o.keyCheckOnly THEN _checkKeys(m, d)
  ELSE IF o.strict /\ ~_checkKeys(m, d).valid THEN _checkKeys(m, d)
  ELSE IF o.sparse THEN _sparse(d, m, o)
  ELSE _validate(d, m, o, EmptyObj)

----------------------------------------------------------------------------
(* Strings *)

Char(s, i) == SubSeq(s, i, i)
Rest(s) == SubSeq(s, 2, Len(s))
ButLast(s) == SubSeq(s, 1, Len(s) - 1)

LowerCase == "abcdefghijklmnopqrstuvwxyz"
UpperCase == "ABCDEFGHIJKLMNOPQRSTUVWXYZ"

\* The letter of alphabet `to` at the place c has in alphabet `from`, else c
MapChar(c, from, to) ==
  IF \E i \in 1..Len(from) : Char(from, i) = c
    THEN Char(to, CHOOSE i \in 1..Len(from) : Char(from, i) = c)
    ELSE c

\* String.prototype.toUpperCase / toLowerCase
RECURSIVE toUpperCase(_)
toUpperCase(s) ==
  IF s = "" THEN "" ELSE MapChar(Char(s, 1), LowerCase, UpperCase) \o toUpperCase(Rest(s))

RECURSIVE toLowerCase(_)
toLowerCase(s) ==
  IF s = "" THEN "" ELSE MapChar(Char(s, 1), UpperCase, LowerCase) \o toLowerCase(Rest(s))

\* White space as String.prototype.trim sees it: the space and the tab
IsWhiteSpace(c) == c = " " \/ c = "\t"

RECURSIVE trimStart(_)
trimStart(s) ==
  IF s # "" /\ IsWhiteSpace(Char(s, 1)) THEN trimStart(Rest(s)) ELSE s

RECURSIVE trimEnd(_)
trimEnd(s) ==
  IF s # "" /\ IsWhiteSpace(Char(s, Len(s))) THEN trimEnd(ButLast(s)) ELSE s

\* String.prototype.trim
trim(s) == trimEnd(trimStart(s))

\* v.replace(/ /g, ''): every space removed (a tab stays)
RECURSIVE removeSpaces(_)
removeSpaces(s) ==
  IF s = "" THEN ""
  ELSE IF Char(s, 1) = " " THEN removeSpaces(Rest(s))
  ELSE Char(s, 1) \o removeSpaces(Rest(s))

\* A string of decimal digits
IsDigit(c) == \E i \in 1..Len(Digits) : Digits[i] = c
RECURSIVE IsNumeric(_)
IsNumeric(s) == s = "" \/ (IsDigit(Char(s, Len(s))) /\ IsNumeric(ButLast(s)))

\* String(v): a value as a property key or in a concatenation
StringOf(v) ==
  CASE v.t = "string" -> v.s
    [] v.t = "number" -> IF v.s = "NaN" THEN "NaN" ELSE NumStr(v.n)
    [] v.t = "boolean" -> IF v.n = 1 THEN "true" ELSE "false"
    [] v.t = "undefined" -> "undefined"
    [] v.t = "null" -> "null"
    [] OTHER -> "[object Object]"

----------------------------------------------------------------------------
(* Transforms: the registry _transforms, transform, available, add *)

\* A function value; s names the function
Fn(name) == Val("function", name, 0, << >>)

NaN == Val("number", "NaN", 0, << >>)

\* What a function call leaves: a returned value, or a raised exception
Returned(v) == [threw |-> FALSE, val |-> v]
Raised == [threw |-> TRUE, val |-> Thrown]

\* The four string transforms: each calls a String method on v, which
\* raises a TypeError when v is not a string
stringTransform(name, v) ==
  IF v.t # "string" THEN Raised
  ELSE CASE name = "trim" -> Returned(Str(trim(v.s)))
         [] name = "nowhite" -> Returned(Str(removeSpaces(v.s)))
         [] name = "uppercase" -> Returned(Str(toUpperCase(v.s)))
         [] name = "lowercase" -> Returned(Str(toLowerCase(v.s)))

StringTransformNames == << "trim", "nowhite", "uppercase", "lowercase" >>

\* The casters of ./typeconvert whose names start with 'to'
CastNames == << "toString", "toNumber", "toInteger", "toFloat", "toBoolean", "toDate" >>

\* Cast[name](v): a best-effort conversion that never raises
Cast(name, v) ==
  CASE name = "toString" -> Str(StringOf(v))
    [] name \in {"toNumber", "toInteger", "toFloat"} ->
         (CASE v.t = "number" -> v
            [] v.t = "boolean" -> Num(v.n)
            [] v.t = "string" /\ v.s # "" /\ IsNumeric(v.s) -> Num(ParseNum(v.s))
            [] OTHER -> NaN)
    [] name = "toBoolean" -> Bool(Truthy(v))
    [] name = "toDate" -> Val("date", StringOf(v), 0, << >>)

\* Functions a caller supplies, to transform.add or as a generator
\*   exclaim: v => v + '!'     constK: v => 'k'     genAB: () => 'ab'
callerFunction(name, v) ==
  CASE name = "exclaim" -> Returned(Str(StringOf(v) \o "!"))
    [] name = "constK" -> Returned(Str("k"))
    [] name = "genAB" -> Returned(Str("ab"))

InSeq(q, x) == \E i \in 1..Len(q) : q[i] = x

\* f(v) for a function value f
CallFn(f, v) ==
  CASE InSeq(StringTransformNames, f.s) -> stringTransform(f.s, v)
    [] InSeq(CastNames, f.s) -> Returned(Cast(f.s, v))
    [] OTHER -> callerFunction(f.s, v)

\* The registry: its keys in insertion order (the order of Object.keys), and
\* the function under each key
Registry(keys, fn) == [keys |-> keys, fn |-> fn]

\* _transforms once the module is loaded: the four transforms, then the casters
InitialTransforms ==
  Registry(StringTransformNames \o CastNames,
           [k \in {StringTransformNames[i] : i \in 1..Len(StringTransformNames)}
                    \cup {CastNames[i] : i \in 1..Len(CastNames)} |-> Fn(k)])

\* _transforms[key], undefined when no such key (key no member of
\* Object.prototype)
Lookup(reg, key) == IF key \in DOMAIN reg.fn THEN reg.fn[key] ELSE Undef

\* What a call of transform leaves: the value returned (or the exception),
\* and the functions it invoked, in order
Outcome(threw, val, calls) == [threw |-> threw, val |-> val, calls |-> calls]
NoReturn == Outcome(FALSE, Undef, << >>)

RECURSIVE forEachKey(_, _, _, _)

\* forEachKey calling _transforms[key] without the test that it exists: a
\* name that is not registered raises
forEachKeyUnguarded(transforms, i, val, calls) ==
  IF i > transforms.n THEN Outcome(FALSE, val, calls)
  ELSE
    LET key == StringOf(Elem(transforms, i))
        f == Lookup(_transforms, key)
    IN
    IF ~Truthy(f) THEN Outcome(TRUE, Thrown, calls)
    ELSE LET r == CallFn(f, val) IN
         IF r.threw THEN Outcome(TRUE, Thrown, Append(calls, f.s))
         ELSE forEachKey(transforms, i + 1, r.val, Append(calls, f.s))

\* transforms.forEach(key => { if (_transforms[key]) val = _transforms[key](val) })
\* from position i of the list on, then return val
forEachKey(transforms, i, val, calls) ==
  IF i > transforms.n THEN Outcome(FALSE, val, calls)
  ELSE
    LET key == StringOf(Elem(transforms, i))
        f == Lookup(_transforms, key)
    IN
    IF ~Truthy(f) THEN forEachKey(transforms, i + 1, val, calls)
    ELSE LET r == CallFn(f, val) IN
         IF r.threw THEN Outcome(TRUE, Thrown, Append(calls, f.s))
         ELSE forEachKey(transforms, i + 1, r.val, Append(calls, f.s))

\* The list of names turned round
Reversed(list) ==
  Arr([i \in 1..list.n |-> Elem(list, list.n + 1 - i)])

\* transform walking the list from its last name to its first
transformLastFirst(val, transforms) ==
  IF ~Truthy(transforms) THEN Outcome(FALSE, val, << >>)
  ELSE IF val = Undef THEN Outcome(FALSE, val, << >>)
  ELSE
    LET list == IF transforms.t = "string" THEN Arr(<< transforms >>) ELSE transforms IN
    IF list.t # "array" THEN Outcome(TRUE, Thrown, << >>)
    ELSE forEachKey(Reversed(list), 1, val, << >>)

\* transform without the test that leaves undefined alone
transformUndefinedToo(val, transforms) ==
  IF ~Truthy(transforms) THEN Outcome(FALSE, val, << >>)
  ELSE
    LET list == IF transforms.t = "string" THEN Arr(<< transforms >>) ELSE transforms IN
    IF list.t # "array" THEN Outcome(TRUE, Thrown, << >>)
    ELSE forEachKey(list, 1, val, << >>)

transform(val, transforms) ==
  IF ~Truthy(transforms) THEN Outcome(FALSE, val, << >>)
  ELSE IF val = Undef THEN Outcome(FALSE, val, << >>)
  ELSE
    LET list == IF transforms.t = "string" THEN Arr(<< transforms >>) ELSE transforms IN
    IF list.t # "array" THEN Outcome(TRUE, Thrown, << >>)
    ELSE forEachKey(list, 1, val, << >>)

\* transform.available(): Object.keys(_transforms)
available ==
  Arr([i \in 1..Len(_transforms.keys) |-> Str(_transforms.keys[i])])

\* add leaving a key that is already registered as it is
addUnlessPresent(key, fn) ==
  IF key \in DOMAIN _transforms.fn
    THEN _transforms
    ELSE Registry(Append(_transforms.keys, key), (key :> fn) @@ _transforms.fn)

\* transform.add(key, fn): _transforms[key] = fn; the registry afterwards
add(key, fn) ==
  Registry(IF key \in DOMAIN _transforms.fn
             THEN _transforms.keys
             ELSE Append(_transforms.keys, key),
           (key :> fn) @@ _transforms.fn)

\* The last call made, with its arguments
Call(op, a, b, c) == [op |-> op, a |-> a, b |-> b, c |-> c]
NoCall == Call("", Undef, Undef, Undef)

----------------------------------------------------------------------------
(* strip *)

\* An object held by reference: s names the reference, so that two objects
\* with the same content can be told apart
Ref(name, f) == Val("object", name, 0, f)

\* a === b: same type and same value; NaN equals nothing; an object equals
\* only itself
StrictEquals(a, b) ==
  CASE a.t # b.t -> FALSE
    [] a.t = "number" -> a.s # "NaN" /\ b.s # "NaN" /\ a.n = b.n
    [] a.t \in {"object", "array", "function"} -> a.s # "" /\ a = b
    [] OTHER -> a = b

\* a == b: as ===, and also null == undefined and a number == its numeral
LooseEquals(a, b) ==
  \/ StrictEquals(a, b)
  \/ {a.t, b.t} = {"null", "undefined"}
  \/ a.t = "number" /\ b.t = "string" /\ a.s # "NaN" /\ b.s = NumStr(a.n)
  \/ b.t = "number" /\ a.t = "string" /\ b.s # "NaN" /\ a.s = NumStr(b.n)

\* delete d[k]
Delete(d, k) == [d EXCEPT !.c = [j \in DOMAIN d.c \ {k} |-> d.c[j]]]

\* d[k] of an object or an array
Prop(d, k) == IF k \in DOMAIN d.c THEN d.c[k] ELSE Undef

RECURSIVE stripEach(_, _, _, _)

\* stripEach comparing with == instead of ===
stripEachLoosely(values, i, d, k) ==
  IF i > values.n THEN d
  ELSE IF LooseEquals(Prop(d, k), Elem(values, i))
    THEN stripEach(values, i + 1, Delete(d, k), k)
    ELSE stripEach(values, i + 1, d, k)

\* values.forEach(val => data[k] === val && delete data[k]) from position i on
stripEach(values, i, d, k) ==
  IF i > values.n THEN d
  ELSE IF StrictEquals(Prop(d, k), Elem(values, i))
    THEN stripEach(values, i + 1, Delete(d, k), k)
    ELSE stripEach(values, i + 1, d, k)

\* if (!(values instanceof Array)) values = [values]
asArray(values) == IF values.t = "array" THEN values ELSE Arr(<< values >>)

\* for (var k in data) { ... } from position i of the keys on
RECURSIVE stripKeys(_, _, _, _)
stripKeys(ks, i, values, d) ==
  IF i > Len(ks) THEN d
  ELSE stripKeys(ks, i + 1, asArray(values), stripEach(asArray(values), 1, d, ks[i]))

\* strip(values, data): data as the call leaves it
strip(values, d) == stripKeys(ForIn(d), 1, values, d)

----------------------------------------------------------------------------
(* format: the formatting pass over a record of scalar fields               *)

\* An option that is on unless set to false (defaults, generate, transform)
optOn(o, name) == Get(o, name) # Bool(FALSE)

\* An option that is off unless set (strict, sparse, once, protect)
optSet(o, name) == Truthy(Get(o, name))

\* The record format builds on: no data instantiates a blank record
inputRecord(d) == IF is_object(d) THEN d ELSE EmptyObj

\* 1. sparse: the fields format processes
workingKeys(m, d, o) ==
  IF optSet(o, "sparse") THEN DOMAIN m.c \cap DOMAIN inputRecord(d).c ELSE DOMAIN m.c

\* The keys of data copied to the output: under strict the declared ones only
copiedKeys(m, d, o) ==
  IF optSet(o, "strict")
    THEN DOMAIN inputRecord(d).c \cap DOMAIN m.c
    ELSE DOMAIN inputRecord(d).c

\* 2. defaults
withDefault(scm, v, o) == IF optOn(o, "defaults") THEN setDefault(v, scm) ELSE v

\* The generator configuration {ops, preserve, require, once} of a field; a
\* plain function is a chain of one op with no flag set
generatorOps(gen) ==
  CASE gen.t = "function" -> << gen >>
    [] gen.t = "object" /\ Get(gen, "ops").t = "function" -> << Get(gen, "ops") >>
    [] gen.t = "object" /\ Get(gen, "ops").t = "array" ->
         [i \in 1..Get(gen, "ops").n |-> Elem(Get(gen, "ops"), i)]
    [] OTHER -> << >>

generatorFlag(gen, flag) == gen.t = "object" /\ Truthy(Get(gen, flag))

\* The ops chained: each op is called on the output of the one before
RECURSIVE chainOps(_, _, _)
chainOps(ops, i, v) ==
  IF i > Len(ops) THEN Returned(v)
  ELSE LET r == CallFn(ops[i], v) IN
       IF r.threw THEN Raised ELSE chainOps(ops, i + 1, r.val)

\* 3. generate: the value of field key after its generator, gated by the
\* generate option and by once / require / preserve
withGenerated(scm, key, d, v, o) ==
  LET gen == Get(scm, "generate") IN
  IF ~Truthy(gen) \/ ~optOn(o, "generate") THEN Returned(v)
  ELSE IF generatorFlag(gen, "once")
          /\ Get(o, "generate") # Str("once") /\ ~optSet(o, "once") THEN Returned(v)
  ELSE IF generatorFlag(gen, "require") /\ key \notin DOMAIN inputRecord(d).c THEN Returned(v)
  ELSE IF generatorFlag(gen, "preserve") /\ ~isEmpty(v) THEN Returned(v)
  ELSE chainOps(generatorOps(gen), 1, v)

\* 4. transform
withTransforms(scm, v, o) ==
  IF optOn(o, "transform")
    THEN LET r == transform(v, Get(scm, "transforms")) IN
         IF r.threw THEN Raised ELSE Returned(r.val)
    ELSE Returned(v)

\* A field whose transform runs before its generator
fieldValueTransformFirst(scm, key, d, o) ==
  LET defaulted == withDefault(scm, Get(inputRecord(d), key), o)
      transformed == withTransforms(scm, defaulted, o)
  IN IF transformed.threw THEN Raised
     ELSE withGenerated(scm, key, d, transformed.val, o)

\* Steps 2 to 4 for one field, in this order
fieldValue(scm, key, d, o) ==
  LET defaulted == withDefault(scm, Get(inputRecord(d), key), o)
      generated == withGenerated(scm, key, d, defaulted, o)
  IN IF generated.threw THEN Raised ELSE withTransforms(scm, generated.val, o)

\* The output before protect, strip and mapIdFrom: the copied keys of data,
\* and each processed field that has a value or a key on data
builtRecord(m, d, o, values) ==
  LET set == { k \in workingKeys(m, d, o) :
                 values[k].val # Undef \/ k \in DOMAIN inputRecord(d).c }
  IN Obj([k \in copiedKeys(m, d, o) \cup set |->
            IF k \in workingKeys(m, d, o) THEN values[k].val ELSE inputRecord(d).c[k]])

\* 5. protect: fields marked protect are removed, unless the option is set
withoutProtected(m, rec, o) ==
  IF optSet(o, "protect") THEN rec
  ELSE Obj([k \in { j \in DOMAIN rec.c : ~Truthy(Get(Get(m, j), "protect")) } |-> rec.c[k]])

\* 6. strip: the sentinels of the strip option, none by default
stripValues(o) == IF Get(o, "strip") = Undef THEN Arr(<< >>) ELSE Get(o, "strip")

\* 7. mapIdFrom: data[mapIdFrom] moves to the primaryKey field
primaryKeys(m) == { k \in DOMAIN m.c : Truthy(Get(m.c[k], "primaryKey")) }

withMappedId(m, d, rec, o) ==
  LET from == Get(o, "mapIdFrom") IN
  IF from.t = "string" /\ primaryKeys(m) # {} /\ from.s \in DOMAIN inputRecord(d).c
    THEN LET pk == CHOOSE k \in primaryKeys(m) : TRUE IN
         Obj((pk :> inputRecord(d).c[from.s])
               @@ [k \in DOMAIN rec.c \ {from.s} |-> rec.c[k]])
    ELSE rec

\* What a call of format leaves: the record returned (or the exception), and
\* the caller's data as the call leaves it
Formatted(threw, out, input) == [threw |-> threw, out |-> out, data |-> input]

\* format running its strip step on the caller's data before it builds its output
formatStrippingData(m, d, o) ==
  LET stripped == IF is_object(d) THEN strip(stripValues(o), d) ELSE d
      values == [k \in workingKeys(m, stripped, o) |-> fieldValue(m.c[k], k, stripped, o)]
  IN
  IF \E k \in DOMAIN values : values[k].threw THEN Formatted(TRUE, Thrown, stripped)
  ELSE
    LET built == builtRecord(m, stripped, o, values)
        kept == withoutProtected(m, built, o)
    IN Formatted(FALSE, withMappedId(m, stripped, strip(stripValues(o), kept), o), stripped)

\* format(model, data, opts)
format(m, d, o) ==
  LET values == [k \in workingKeys(m, d, o) |-> fieldValue(m.c[k], k, d, o)] IN
  IF \E k \in DOMAIN values : values[k].threw THEN Formatted(TRUE, Thrown, d)
  ELSE
    LET built == builtRecord(m, d, o, values)
        kept == withoutProtected(m, built, o)
        stripped == strip(stripValues(o), kept)
    IN Formatted(FALSE, withMappedId(m, d, stripped, o), d)

----------------------------------------------------------------------------
(* The calls: a model, a data value and options, then validate *)

\* Longest data array
MaxArrayLen == 2

\* Sub-models: a record model with one integer field, and a scalar field spec
SubModel == Obj([x |-> Obj([type |-> Str("integer")])])
ScalarModel == Obj([type |-> Str("string")])

\* A record model whose field y is itself a sub-object
NestedModel ==
  Obj([x |-> Obj([type |-> Str("integer")]), y |-> Obj([model |-> SubModel])])

\* Field specs without a sub-model
PlainSpecs ==
  { Obj([type |-> Str("string")]),
    Obj([type |-> Str("integer")]),
    Obj([type |-> Str("string"), required |-> Bool(TRUE)]),
    Obj([type |-> Str("integer"), rules |-> Obj([min |-> Num(2)])]),
    Obj([type |-> Str("string"), allowNull |-> Bool(FALSE)]),
    Obj([type |-> Str("string"), default |-> Str("d")]) }

\* Field specs with a sub-model: single sub-objects and arrays
SubSpecs ==
  { Obj([model |-> SubModel]),
    Obj([model |-> SubModel, required |-> Bool(TRUE)]),
    Obj([type |-> Str("array"), model |-> SubModel]),
    Obj([type |-> Str("array"), model |-> SubModel, required |-> Bool(TRUE)]),
    Obj([model |-> ScalarModel]),
    Obj([type |-> Str("array"), model |-> ScalarModel]),
    Obj([type |-> Str("array"), model |-> ScalarModel, required |-> Bool(TRUE)]),
    Obj([model |-> NestedModel]) }

\* Field specs whose sub-model is a string reference
ReferenceSpecs ==
  { Obj([model |-> Str("yo")]),
    Obj([type |-> Str("array"), model |-> Str("yo")]) }

\* Field specs with two rules and an errors config; no number passes both rules
ErrorConfigs ==
  { Undef, Str("S"), EmptyObj,
    Obj([min |-> Str("M")]),
    Obj([default |-> Str("D")]),
    Obj([min |-> Str("M"), default |-> Str("D")]),
    Obj([max |-> Str("X"), default |-> Str("D")]) }

ErrorSpecs ==
  { Obj([rules |-> Obj([min |-> Num(2), max |-> Num(0)]), errors |-> E]) :
      E \in ErrorConfigs \ { Undef } }
    \cup { Obj([rules |-> Obj([min |-> Num(2), max |-> Num(0)])]) }
    \cup { Obj([rules |-> Obj([max |-> Num(2)]), errors |-> E]) :
             E \in { Obj([min |-> Str("M")]), Obj([max |-> Str("X"), default |-> Str("D")]) } }

SpecsA == PlainSpecs \cup SubSpecs \cup ReferenceSpecs

SpecsB ==
  { Obj([type |-> Str("integer")]),
    Obj([type |-> Str("string"), required |-> Bool(TRUE)]),
    Obj([model |-> SubModel]),
    Obj([type |-> Str("array"), model |-> SubModel]) }

\* Objects with the keys a and b, each present or not
Keyed(as, bs) ==
  { EmptyObj }
    \cup { Obj([k \in {"a"} |-> va]) : va \in as }
    \cup { Obj([k \in {"b"} |-> vb]) : vb \in bs }
    \cup { Obj(("a" :> va) @@ ("b" :> vb)) : va \in as, vb \in bs }

\* Models: keyed models over the fields a and b, and bare field specs
KeyedModels == Keyed(SpecsA, SpecsB) \cup Keyed(ErrorSpecs, { })
Models == KeyedModels \cup PlainSpecs \cup ErrorSpecs

Scalars == { Undef, Null, Str(""), Str("s"), Num(1), Num(5) }

SubObjects ==
  { EmptyObj,
    Obj([x |-> Num(1)]),
    Obj([x |-> Str("s")]),
    Obj([z |-> Num(1)]),
    Obj([x |-> Str("s"), y |-> Obj([z |-> Num(1)])]),
    Obj([x |-> Num(1), y |-> Obj([x |-> Str("s")])]) }

Elements == { Str("s"), Num(1), Obj([x |-> Str("s")]) }

RECURSIVE SeqsUpTo(_, _)
SeqsUpTo(S, n) ==
  IF n = 0 THEN { << >> }
  ELSE LET shorter == SeqsUpTo(S, n - 1) IN
       shorter \cup { Append(q, e) : q \in shorter, e \in S }

Arrays == { Arr(q) : q \in SeqsUpTo(Elements, MaxArrayLen) }

ValuesA == Scalars \cup SubObjects \cup Arrays

ValuesB ==
  { Num(1), Str("s"), Obj([x |-> Str("s")]), Obj([a |-> Num(1)]),
    Arr(<< Obj([x |-> Str("s")]) >>) }

\* Two keys of 50 characters that agree on their first 45
LongKey1 == "kkkkkkkkkkkkkkkkkkkkkkkkkkkkkkkkkkkkkkkkkkkkk11111"
LongKey2 == "kkkkkkkkkkkkkkkkkkkkkkkkkkkkkkkkkkkkkkkkkkkkk22222"

\* A key of 48 characters and one of 49 with the same first 45
LongKey3 == "kkkkkkkkkkkkkkkkkkkkkkkkkkkkkkkkkkkkkkkkkkkkk333"
LongKey4 == "kkkkkkkkkkkkkkkkkkkkkkkkkkkkkkkkkkkkkkkkkkkkk4444"

\* Records that also carry long keys
LongKeyed ==
  { Obj(extra @@ d.c) :
      d \in Keyed({ Str("s"), Num(1) }, { Num(1) }),
      extra \in { LongKey1 :> Num(9), (LongKey1 :> Num(9)) @@ (LongKey2 :> Num(9)),
                  LongKey3 :> Num(9),
                  (LongKey1 :> Num(9)) @@ (LongKey3 :> Num(9)) @@ (LongKey4 :> Num(9)) } }

\* Data: keyed records over a and b, and values that are not keyed objects
Datas ==
  Keyed(ValuesA, ValuesB) \cup LongKeyed \cup Scalars \cup { Arr(<< Str("s") >>) }

Options == [strict : BOOLEAN, sparse : BOOLEAN, keyCheckOnly : BOOLEAN]

NoOptions == [strict |-> FALSE, sparse |-> FALSE, keyCheckOnly |-> FALSE]

Init ==
  /\ model \in Models
  /\ data \in Datas
  /\ opts = NoOptions
  /\ pc = "ready"
  /\ result = NoResult
  /\ _transforms = InitialTransforms
  /\ addLog = << >>
  /\ call = NoCall
  /\ ret = NoReturn

\* Skematic.validate(model, data, o)
Validate(o) ==
  /\ pc = "ready"
  /\ opts' = o
  /\ result' = validate(model, data, o)
  /\ pc' = "done"
  /\ UNCHANGED <<model, data, _transforms, addLog, call, ret>>

Next == \E o \in Options : Validate(o)

Spec == Init /\ [][Next]_vars

----------------------------------------------------------------------------
(* The transform registry in use: any adds, then one call *)

\* Most transform.add calls in a run, and the longest list of names
MaxAdds == 2
MaxNames == 2

\* The keys added (one of them a built-in) and the functions added
AddKeys == { "uppercase", "shout" }
CallerFns == { Fn("exclaim"), Fn("constK") }

\* The names asked for: built-ins, an added key, and a name never registered
TransformNames == { "trim", "uppercase", "toString", "shout", "zz" }

TransformValues == { Undef, Null, Str(" aB "), Str("a b"), Num(7) }

\* The transforms argument: a list of names, one name, or nothing
NameLists ==
  { Arr([i \in 1..Len(q) |-> Str(q[i])]) : q \in SeqsUpTo(TransformNames, MaxNames) }
    \cup { Str(n) : n \in TransformNames }
    \cup { Undef }

InitTransform ==
  /\ model = EmptyObj
  /\ data = Undef
  /\ opts = NoOptions
  /\ pc = "ready"
  /\ result = NoResult
  /\ _transforms = InitialTransforms
  /\ addLog = << >>
  /\ call = NoCall
  /\ ret = NoReturn

\* transform.add(key, fn)
Add(key, fn) ==
  /\ pc = "ready"
  /\ Len(addLog) < MaxAdds
  /\ _transforms' = add(key, fn)
  /\ addLog' = Append(addLog, [key |-> key, fn |-> fn])
  /\ UNCHANGED <<model, data, opts, pc, result, call, ret>>

\* transform(val, names)
Transform(val, names) ==
  /\ pc = "ready"
  /\ call' = Call("transform", val, names, Undef)
  /\ ret' = transform(val, names)
  /\ pc' = "done"
  /\ UNCHANGED <<model, data, opts, result, _transforms, addLog>>

\* transform.available()
Available ==
  /\ pc = "ready"
  /\ call' = Call("available", Undef, Undef, Undef)
  /\ ret' = Outcome(FALSE, available, << >>)
  /\ pc' = "done"
  /\ UNCHANGED <<model, data, opts, result, _transforms, addLog>>

NextTransform ==
  \/ \E key \in AddKeys, fn \in CallerFns : Add(key, fn)
  \/ \E val \in TransformValues, names \in NameLists : Transform(val, names)
  \/ Available

SpecTransform == InitTransform /\ [][NextTransform]_vars

----------------------------------------------------------------------------
(* strip and format in use: a model and the caller's record, then one call *)

\* Two objects with the same content, held by two references
Object1 == Ref("object1", << >>)
Object2 == Ref("object2", << >>)

FormatValuesA ==
  { Undef, Null, Str(""), Str("x"), Str(" ab "), Num(0), NaN, Object1 }

FormatValuesB == { Undef, Str("x"), Num(5) }

\* The caller's records: the keys a and b, and records with a store's _id
FormatDatas ==
  Keyed(FormatValuesA, FormatValuesB)
    \cup { Obj([_id |-> Str("12345")]),
           Obj([_id |-> Str("12345"), a |-> Str("x")]),
           Null }

Names(q) == Arr([i \in 1..Len(q) |-> Str(q[i])])

FormatModels ==
  { Obj([a |-> Obj([default |-> Str("zim"), transforms |-> Names(<< "uppercase" >>)]),
         b |-> Obj([default |-> Num(5)])]),
    Obj([a |-> Obj([generate |-> Fn("genAB"), transforms |-> Names(<< "uppercase" >>)])]),
    Obj([a |-> Obj([transforms |-> Names(<< "trim", "uppercase" >>)]),
         b |-> Obj([protect |-> Bool(TRUE)])]),
    Obj([id |-> Obj([primaryKey |-> Bool(TRUE)]),
         a |-> Obj([type |-> Str("string"), default |-> Str(" ab "),
                    transforms |-> Names(<< "trim" >>)])]),
    Obj([a |-> Obj([generate |-> Obj([ops |-> Arr(<< Fn("exclaim") >>),
                                      preserve |-> Bool(TRUE)]),
                    transforms |-> Names(<< "trim" >>)]),
         b |-> Obj([generate |-> Obj([ops |-> Fn("genAB"), once |-> Bool(TRUE)])])]),
    Obj([a |-> Obj([generate |-> Obj([ops |-> Arr(<< Fn("genAB"), Fn("exclaim") >>),
                                      require |-> Bool(TRUE)]),
                    transforms |-> Names(<< "uppercase", "zz" >>)]),
         b |-> Obj([default |-> Str("x")])]) }

\* The values argument of strip, also as the strip option of format
StripValues ==
  { Undef, Null, Str("x"), NaN, Object1, Object2,
    Arr(<< >>), Arr(<< Undef, Str("x") >>), Arr(<< Null, Num(0) >>),
    Arr(<< Str("AB") >>), Arr(<< Str("ab") >>), Arr(<< Str(" ab "), Str("x!") >>),
    Arr(<< Str("12345") >>) }

FormatOptions ==
  { EmptyObj,
    Obj([strict |-> Bool(TRUE)]),
    Obj([sparse |-> Bool(TRUE)]),
    Obj([defaults |-> Bool(FALSE)]),
    Obj([generate |-> Bool(FALSE)]),
    Obj([generate |-> Str("once")]),
    Obj([once |-> Bool(TRUE), sparse |-> Bool(TRUE)]),
    Obj([transform |-> Bool(FALSE)]),
    Obj([protect |-> Bool(TRUE)]),
    Obj([mapIdFrom |-> Str("_id")]),
    Obj([mapIdFrom |-> Str("_id"), strict |-> Bool(TRUE)]) }
    \cup { Obj([strip |-> v]) : v \in StripValues }
    \cup { Obj([strip |-> v, mapIdFrom |-> Str("_id")]) :
             v \in { Arr(<< Str("12345") >>), Arr(<< Undef, Str("x") >>) } }

InitFormat ==
  /\ model \in FormatModels
  /\ data \in FormatDatas
  /\ opts = NoOptions
  /\ pc = "ready"
  /\ result = NoResult
  /\ _transforms = InitialTransforms
  /\ addLog = << >>
  /\ call = NoCall
  /\ ret = NoReturn

\* strip(values, data) on the caller's record
Strip(values) ==
  /\ pc = "ready"
  /\ is_object(data)
  /\ call' = Call("strip", values, data, Undef)
  /\ data' = strip(values, data)
  /\ ret' = Outcome(FALSE, Undef, << >>)
  /\ pc' = "done"
  /\ UNCHANGED <<model, opts, result, _transforms, addLog>>

\* Skematic.format(model, data, o)
Format(o) ==
  /\ pc = "ready"
  /\ call' = Call("format", model, data, o)
  /\ ret' = Outcome(format(model, data, o).threw, format(model, data, o).out, << >>)
  /\ data' = format(model, data, o).data
  /\ pc' = "done"
  /\ UNCHANGED <<model, opts, result, _transforms, addLog>>

NextFormat ==
  \/ \E values \in StripValues : Strip(values)
  \/ \E o \in FormatOptions : Format(o)

SpecFormat == InitFormat /\ [][NextFormat]_vars

----------------------------------------------------------------------------
(* Vocabulary of the properties *)

\* A finished call on a keyed data object against a keyed model
KeyedCall == pc = "done" /\ is_object(data) /\ model \in KeyedModels

\* The call ran the full walker: no option set
PlainCall == KeyedCall /\ opts = NoOptions

\* The fields of a keyed model, and the keys of data that are none
Fields(m) == DOMAIN m.c
UnknownDataKeys == DOMAIN data.c \ Fields(model)

\* The model cut down to the fields in K
Restrict(m, K) == Obj([k \in DOMAIN m.c \cap K |-> m.c[k]])

\* The entry every unknown key is reported with
InvalidKey == Arr(<< Str("invalidKey") >>)

\* errors has an entry under key k
HasEntry(errors, k) == errors.t = "object" /\ k \in DOMAIN errors.c

\* What the full walker returns for field f when it is the only field
Alone(f) == _validate(data, Restrict(model, {f}), NoOptions, EmptyObj)

\* Field f, validated alone, fails with an entry under its own name
FailsAlone(f) ==
  /\ ~IsThrow(Alone(f))
  /\ ~Alone(f).valid
  /\ HasEntry(Alone(f).errors, f)

\* Field f holds a single sub-object with a key its sub-model does not declare
SubObjectWithUnknownKey(f) ==
  /\ f \in Fields(model)
  /\ Truthy(Get(model.c[f], "model"))
  /\ ~isArrayField(model.c[f], Get(data, f))
  /\ is_object(Get(data, f))
  /\ unknownKeys(Get(model.c[f], "model"), Get(data, f)) # {}

----------------------------------------------------------------------------
(* C1 *)

C1_ReportedAs(k) == IF Len(k) > 48 THEN SubSeq(k, 1, 45) \o "..." ELSE k

----------------------------------------------------------------------------
(* C2 *)

\* C2: sparse validate reports only on keys present on data: the result is
\* the one obtained from the model without the fields absent from data, and
\* no absent field has an entry in errors.
C2_SparseIgnoresAbsentFields ==
  (KeyedCall /\ opts.sparse) =>
    /\ result = validate(Restrict(model, DOMAIN data.c), data, opts)
    /\ \A f \in Fields(model) \ DOMAIN data.c :
         ~IsThrow(result) => ~HasEntry(result.errors, f)

\* A sparse call that is valid although a required field is absent from data
C2_Witness ==
  /\ KeyedCall /\ opts.sparse /\ ~opts.strict /\ ~opts.keyCheckOnly
  /\ \E f \in Fields(model) \ DOMAIN data.c : Get(model.c[f], "required") = Bool(TRUE)
  /\ DOMAIN data.c \cap Fields(model) # {}
  /\ result.valid = TRUE

----------------------------------------------------------------------------
(* C3 *)

\* Element e of an array fails validation against the sub-model
C3_ElementFails(e, sub, d) ==
  IF is_type(e) = "object"
    THEN LET r == _validate(e, sub, NoOptions, EmptyObj) IN IsThrow(r) \/ ~r.valid
    ELSE Len(checkValue(e, sub, d, NoOptions)) > 0

\* C3: for a sub-model field whose value is an array, errors[field] has an
\* entry under index i if and only if element i fails against the sub-model.
C3_ArrayErrorsPerElement ==
  PlainCall =>
    \A f \in Fields(model) :
      (Truthy(Get(model.c[f], "model")) /\ Get(data, f).t = "array") =>
        \A i \in 1..Get(data, f).n :
          C3_ElementFails(Elem(Get(data, f), i), Get(model.c[f], "model"), data)
            <=> /\ ~IsThrow(result)
                /\ HasEntry(result.errors, f)
                /\ HasEntry(result.errors.c[f], IdxKey(i))

----------------------------------------------------------------------------
(* C4 *)

\* C4: when a single sub-object field holds an undeclared key, every other
\* failing field of the record still has its errors in the result.
C4_SubObjectFailureKeepsSiblings ==
  PlainCall =>
    \A s \in Fields(model) : \A f \in Fields(model) \ {s} :
      (SubObjectWithUnknownKey(s) /\ FailsAlone(f)) =>
        /\ ~IsThrow(result)
        /\ HasEntry(result.errors, f)
        /\ result.errors.c[f] = Alone(f).errors.c[f]

----------------------------------------------------------------------------
(* C5 *)

\* C5: validate returns a {valid, errors} result for every data value; it
\* never raises.
C5_NeverThrowsOnData ==
  pc = "done" => ~IsThrow(result)

----------------------------------------------------------------------------
(* C6 *)

\* Field f is declared required, has no default, and data gives no value
C6_RequiredAndAbsent(f) ==
  /\ Get(model.c[f], "required") = Bool(TRUE)
  /\ Get(model.c[f], "default") = Undef
  /\ Get(data, f) = Undef

\* C6: in non-sparse validate every required field without a default whose
\* value is absent has an entry in errors and makes valid false.
C6_RequiredAbsentIsAnError ==
  PlainCall =>
    \A f \in Fields(model) :
      C6_RequiredAndAbsent(f) =>
        /\ ~IsThrow(result)
        /\ result.valid = FALSE
        /\ HasEntry(result.errors, f)

----------------------------------------------------------------------------
(* C7 *)

\* Field f is optional, carries no rules, and its value after the default
\* is empty
C7_EmptyOptional(f) ==
  /\ ~Truthy(Get(model.c[f], "required"))
  /\ Get(model.c[f], "allowNull") # Bool(FALSE)
  /\ Get(model.c[f], "rules") = Undef
  /\ isEmpty(setDefault(Get(data, f), model.c[f]))

\* C7: in non-sparse validate an empty optional field without rules never
\* appears in errors.
C7_EmptyOptionalNeverInErrors ==
  PlainCall =>
    \A f \in Fields(model) :
      (C7_EmptyOptional(f) /\ ~IsThrow(result)) => ~HasEntry(result.errors, f)

----------------------------------------------------------------------------
(* C8 *)

\* C8: whenever validate returns valid = true for a keyed data object,
\* errors is null, in every option mode.
C8_ValidMeansNullErrors ==
  (KeyedCall /\ ~IsThrow(result) /\ result.valid) => result.errors = Null

----------------------------------------------------------------------------
(* C9 *)

----------------------------------------------------------------------------
(* C10 *)

\* The result the scalar check of data against the model stands for
C10_ScalarResult ==
  LET msgs == checkValue(data, model, EmptyObj, opts) IN
  IF Len(msgs) = 0 THEN Result(TRUE, Null) ELSE Result(FALSE, Arr(msgs))

----------------------------------------------------------------------------
(* Vocabulary of the transform properties *)

\* A finished call transform(call.a, call.b)
TransformCall == pc = "done" /\ call.op = "transform"

\* The names the transforms argument asks for, in order: the elements of a
\* list, or the one name given as a string
NamesOf(names) ==
  CASE names.t = "array" -> [i \in 1..names.n |-> StringOf(Elem(names, i))]
    [] names.t = "string" -> << names.s >>
    [] OTHER -> << >>

\* Name n is registered
IsRegistered(n) == n \in DOMAIN _transforms.fn

\* f_nk(...f_n2(f_n1(v))) for the names ns = n1..nk: the innermost call is
\* the first name's; a call that raises ends the evaluation
RECURSIVE Composition(_, _)
Composition(ns, v) ==
  IF Len(ns) = 0 THEN Returned(v)
  ELSE LET inner == Composition(SubSeq(ns, 1, Len(ns) - 1), v) IN
       IF inner.threw THEN Raised
       ELSE CallFn(_transforms.fn[ns[Len(ns)]], inner.val)

----------------------------------------------------------------------------
(* C12 *)

\* C12: transform(val, names) with a defined val and registered names
\* n1..nk returns f_nk(...f_n2(f_n1(val))), the transforms applied in the
\* declared order, each on the previous output; one name given as a string
\* counts as the list of that name.
C12_AppliesInDeclaredOrder ==
  (/\ TransformCall
   /\ call.a # Undef
   /\ Truthy(call.b)
   /\ \A i \in 1..Len(NamesOf(call.b)) : IsRegistered(NamesOf(call.b)[i])) =>
    /\ ret.threw = Composition(NamesOf(call.b), call.a).threw
    /\ ret.val = Composition(NamesOf(call.b), call.a).val

\* A call with two registered names whose order shows in the result
C12_Witness ==
  /\ TransformCall
  /\ call.a = Str(" aB ")
  /\ call.b = Arr(<< Str("trim"), Str("shout") >>)
  /\ addLog = << [key |-> "shout", fn |-> Fn("exclaim")] >>
  /\ ret.val = Str("aB!")

----------------------------------------------------------------------------
(* C13 *)

\* C13: transform(undefined, names) returns undefined for every names
\* argument and invokes no transform function.
C13_UndefinedPassesThrough ==
  (TransformCall /\ call.a = Undef) =>
    /\ ~ret.threw
    /\ ret.val = Undef
    /\ ret.calls = << >>

\* undefined handed to trim, which raises on it when called
C13_Witness ==
  /\ TransformCall
  /\ call.a = Undef
  /\ call.b = Arr(<< Str("trim"), Str("uppercase") >>)
  /\ CallFn(_transforms.fn["trim"], Undef).threw
  /\ ret.val = Undef

----------------------------------------------------------------------------
(* C14 *)

\* The registered names among those asked for, as a list
C14_RegisteredOnly(names) ==
  LET ns == SelectSeq(NamesOf(names), IsRegistered) IN
  Arr([i \in 1..Len(ns) |-> Str(ns[i])])

----------------------------------------------------------------------------
(* C15 *)

\* The keys added so far, and the function most recently added under key
C15_AddedKeys == { addLog[i].key : i \in 1..Len(addLog) }
C15_LastAdded(key) ==
  addLog[CHOOSE i \in 1..Len(addLog) :
           /\ addLog[i].key = key
           /\ \A j \in (i + 1)..Len(addLog) : addLog[j].key # key].fn

\* The names a list holds, and how often it holds name n
C15_Listed(list) == { Elem(list, i).s : i \in 1..list.n }
C15_Count(list, n) == Cardinality({ i \in 1..list.n : Elem(list, i) = Str(n) })

\* C15: after any sequence of transform.add(key, fn) calls, available()
\* lists every built-in name and every added key exactly once, and
\* transform(val, [key]) applies the function most recently added under key,
\* also when key names a built-in.
C15_RegistryFollowsAdds ==
  /\ C15_Listed(available) = DOMAIN InitialTransforms.fn \cup C15_AddedKeys
  /\ \A n \in C15_Listed(available) : C15_Count(available, n) = 1
  /\ (pc = "done" /\ call.op = "available") => ret.val = available
  /\ \A key \in C15_AddedKeys :
       (TransformCall /\ call.a # Undef /\ call.b = Arr(<< Str(key) >>)) =>
         /\ ret.threw = CallFn(C15_LastAdded(key), call.a).threw
         /\ ret.val = CallFn(C15_LastAdded(key), call.a).val
         /\ ret.calls = << C15_LastAdded(key).s >>

\* A built-in overwritten twice, then applied: the second function answers
C15_Witness ==
  /\ TransformCall
  /\ addLog = << [key |-> "uppercase", fn |-> Fn("constK")],
                 [key |-> "uppercase", fn |-> Fn("exclaim")] >>
  /\ call.a = Str("a b")
  /\ call.b = Arr(<< Str("uppercase") >>)
  /\ ret.val = Str("a b!")

----------------------------------------------------------------------------
(* Vocabulary of the strip and format properties *)

\* A finished call strip(call.a, call.b), or format(call.a, call.b, call.c);
\* call.b is the caller's record as it was before the call
StripCall == pc = "done" /\ call.op = "strip"
FormatCall == pc = "done" /\ call.op = "format"

\* The sentinels a values argument stands for
Sentinels(values) ==
  IF values.t = "array" THEN { Elem(values, i) : i \in 1..values.n } ELSE { values }

\* Value v strictly equals one of the sentinels
IsSentinel(v, values) == \E x \in Sentinels(values) : StrictEquals(v, x)

----------------------------------------------------------------------------
(* C16 *)

\* C16: strip(values, data) removes exactly the own keys of data whose value
\* is === to one of the sentinels, values that is no array counting as the
\* list of itself; every other key keeps its value and no key is added.
C16_StripRemovesExactlyMatches ==
  StripCall =>
    data = Obj([k \in { j \in DOMAIN call.b.c : ~IsSentinel(call.b.c[j], call.a) } |->
                  call.b.c[k]])

\* strip(undefined, {a: undefined, b: 'x'}): a goes, b stays
C16_Witness ==
  /\ StripCall
  /\ call.a = Undef
  /\ call.b = Obj([a |-> Undef, b |-> Str("x")])
  /\ data = Obj([b |-> Str("x")])

----------------------------------------------------------------------------
(* C17 *)

----------------------------------------------------------------------------
(* C20 *)

\* The value of field k of the formatted record: the value on data, then the
\* default, then the generator, then the transforms
C20_OnData(k) == Get(inputRecord(call.b), k)

C20_Defaulted(k) ==
  IF Get(call.c, "defaults") # Bool(FALSE)
       /\ Get(call.a.c[k], "default") # Undef /\ isEmpty(C20_OnData(k))
    THEN Get(call.a.c[k], "default")
    ELSE C20_OnData(k)

C20_GeneratorRuns(k) ==
  LET gen == Get(call.a.c[k], "generate") IN
  /\ Truthy(gen)
  /\ Get(call.c, "generate") # Bool(FALSE)
  /\ generatorFlag(gen, "once") =>
       (Get(call.c, "generate") = Str("once") \/ Truthy(Get(call.c, "once")))
  /\ generatorFlag(gen, "require") => k \in DOMAIN inputRecord(call.b).c
  /\ generatorFlag(gen, "preserve") => isEmpty(C20_Defaulted(k))

C20_Generated(k) ==
  IF C20_GeneratorRuns(k)
    THEN chainOps(generatorOps(Get(call.a.c[k], "generate")), 1, C20_Defaulted(k)).val
    ELSE C20_Defaulted(k)

C20_Transformed(k) ==
  IF Get(call.c, "transform") # Bool(FALSE)
    THEN transform(C20_Generated(k), Get(call.a.c[k], "transforms")).val
    ELSE C20_Generated(k)

\* Field k is processed: under sparse only when data holds its key
C20_Processed(k) ==
  Truthy(Get(call.c, "sparse")) => k \in DOMAIN inputRecord(call.b).c

\* Field k receives the mapped id
C20_MappedId(k) ==
  /\ Get(call.c, "mapIdFrom").t = "string"
  /\ Get(call.c, "mapIdFrom").s \in DOMAIN inputRecord(call.b).c
  /\ Truthy(Get(call.a.c[k], "primaryKey"))

\* C20: format applies its steps to each field in the order sparse filter,
\* defaults, generate, transform, protect, strip, and mapIdFrom once at the
\* end: a field of the output holds the transforms of its generator's
\* product, it is protected or stripped by comparing that value, and the
\* primaryKey field then receives data[mapIdFrom].
C20_FormatOrder ==
  (FormatCall /\ ~ret.threw) =>
    \A k \in DOMAIN call.a.c :
      IF C20_MappedId(k)
        THEN /\ k \in DOMAIN ret.val.c
             /\ ret.val.c[k] = inputRecord(call.b).c[Get(call.c, "mapIdFrom").s]
        ELSE /\ k \in DOMAIN ret.val.c <=>
                  /\ C20_Processed(k)
                  /\ C20_Transformed(k) # Undef \/ k \in DOMAIN inputRecord(call.b).c
                  /\ Truthy(Get(call.a.c[k], "protect")) => Truthy(Get(call.c, "protect"))
                  /\ ~IsSentinel(C20_Transformed(k), stripValues(call.c))
             /\ k \in DOMAIN ret.val.c => ret.val.c[k] = C20_Transformed(k)

\* format({a: {generate: () => 'ab', transforms: ['uppercase']}}, {},
\* {strip: ['ab']}) yields {a: 'AB'}: the transform ran on the generator's
\* product, and strip compared the value the transform left
C20_Witness ==
  /\ FormatCall
  /\ call.a = Obj([a |-> Obj([generate |-> Fn("genAB"),
                              transforms |-> Names(<< "uppercase" >>)])])
  /\ call.b = EmptyObj
  /\ call.c = Obj([strip |-> Arr(<< Str("ab") >>)])
  /\ ret.val = Obj([a |-> Str("AB")])

----------------------------------------------------------------------------
(* C11 *)

\* C11: under sparse alone a data key that is no field of the model is
\* ignored: the result is the one obtained from data without its unknown
\* keys, and no unknown key has an entry in errors.
C11_SparseIgnoresUnknownKeys ==
  (KeyedCall /\ opts.sparse /\ ~opts.strict /\ ~opts.keyCheckOnly) =>
    /\ result = validate(model, Restrict(data, Fields(model)), opts)
    /\ \A k \in UnknownDataKeys : ~IsThrow(result) => ~HasEntry(result.errors, k)

\* A sparse call that is valid on data with a known and an unknown key
C11_Witness ==
  /\ KeyedCall /\ opts.sparse /\ ~opts.strict /\ ~opts.keyCheckOnly
  /\ UnknownDataKeys # {}
  /\ DOMAIN data.c \cap Fields(model) # {}
  /\ result.valid = TRUE

----------------------------------------------------------------------------
(* C18 *)

\* The message the precedence gives failing rule R under errors config E
C18_Message(E, R) ==
  IF E.t = "object" /\ R \in DOMAIN E.c THEN E.c[R]
  ELSE IF E.t = "object" /\ "default" \in DOMAIN E.c THEN E.c["default"]
  ELSE IF E.t = "string" THEN E
  ELSE Str("Failed: " \o R)

\* Rule R of spec fails on the number n
C18_Fails(spec, R, n) ==
  /\ R \in DOMAIN Get(spec, "rules").c
  /\ IF R = "min" THEN n < Get(spec, "rules").c[R].n ELSE n > Get(spec, "rules").c[R].n

\* The messages for the number n under spec: one per failing rule, min first
C18_Messages(spec, n) ==
  (IF C18_Fails(spec, "min", n) THEN << C18_Message(Get(spec, "errors"), "min") >> ELSE << >>)
    \o (IF C18_Fails(spec, "max", n) THEN << C18_Message(Get(spec, "errors"), "max") >> ELSE << >>)

\* What validate answers when the rules of spec give the messages msgs
C18_Answer(msgs) ==
  IF Len(msgs) = 0 THEN Result(TRUE, Null) ELSE Result(FALSE, Arr(msgs))

\* C18: the message of a failing rule R on a field with errors config E is
\* E[R] if E is an object that defines it, else E.default if E is an object
\* that defines it, else E if E is a string, else 'Failed: R'; for a scalar
\* subject the messages are errors, for a field of a record errors[field].
C18_MessagePrecedence ==
  (pc = "done" /\ opts = NoOptions) =>
    /\ (model \in ErrorSpecs /\ data.t = "number") =>
         result = C18_Answer(C18_Messages(model, data.n))
    /\ (/\ is_object(model) /\ DOMAIN model.c = {"a"} /\ model.c["a"] \in ErrorSpecs
        /\ is_object(data) /\ Get(data, "a").t = "number") =>
         result = IF Len(C18_Messages(model.c["a"], Get(data, "a").n)) = 0
                    THEN Result(TRUE, Null)
                    ELSE Result(FALSE,
                                Obj([k \in {"a"} |->
                                       Arr(C18_Messages(model.c["a"], Get(data, "a").n))]))

\* min fails under {min: 'M', default: 'D'} and max with it: 'M', then 'D'
C18_Witness ==
  /\ pc = "done" /\ opts = NoOptions
  /\ Get(model, "errors") = Obj([min |-> Str("M"), default |-> Str("D")])
  /\ data = Num(1)
  /\ result = Result(FALSE, Arr(<< Str("M"), Str("D") >>))

----------------------------------------------------------------------------
(* C19 *)

\* Field f declares its sub-model by a string reference, and data holds a
\* value for it
C19_ReferenceMet(f) ==
  /\ Get(model.c[f], "model").t = "string"
  /\ ~isEmpty(Get(data, f))

\* C19: when a field's sub-model is a string reference (no resolver being
\* configured), validate raises a resolution error instead of returning a
\* {valid, errors} result.
C19_StringReferenceRaises ==
  PlainCall =>
    ((\E f \in Fields(model) : C19_ReferenceMet(f)) => IsThrow(result))

----------------------------------------------------------------------------
(* C21 *)

\* Field f of model m holds a sub-model, and data holds an array for it
C21_ArrayUnderSubModel(m, f) ==
  /\ Truthy(Get(m.c[f], "model"))
  /\ Get(data, f).t = "array"

\* Model m with field f declaring type: 'array', and without any type
C21_Declared(m, f) ==
  Obj([k \in DOMAIN m.c |->
         IF k = f THEN Obj(("type" :> Str("array")) @@ m.c[f].c) ELSE m.c[k]])
C21_Undeclared(m, f) ==
  Obj([k \in DOMAIN m.c |->
         IF k = f THEN Obj([j \in DOMAIN m.c[f].c \ {"type"} |-> m.c[f].c[j]])
         ELSE m.c[k]])

\* C21: for a sub-model field whose data value is an array, non-sparse
\* validate returns the same result whether or not the field also declares
\* type: 'array'.
C21_ArrayByObservation ==
  (KeyedCall /\ ~opts.sparse) =>
    \A f \in Fields(model) :
      C21_ArrayUnderSubModel(model, f) =>
        /\ result = validate(C21_Declared(model, f), data, opts)
        /\ result = validate(C21_Undeclared(model, f), data, opts)

\* An undeclared array field whose second element fails against the sub-model
C21_Witness ==
  /\ PlainCall
  /\ "a" \in Fields(model)
  /\ C21_ArrayUnderSubModel(model, "a")
  /\ Get(model.c["a"], "type") = Undef
  /\ Get(data, "a").n = 2
  /\ ~IsThrow(result)
  /\ HasEntry(result.errors, "a")
  /\ DOMAIN result.errors.c["a"].c = {"1"}

----------------------------------------------------------------------------
(* C22 *)

\* What result r holds for key k: its entry in errors, NoError without
\* one, Thrown when the call raised
C22_Entry(r, k) ==
  IF IsThrow(r) THEN Thrown
  ELSE IF HasEntry(r.errors, k) THEN r.errors.c[k]
  ELSE NoError

\* C22: for every key present in both data and the model, errors[key] of
\* validate with sparse equals errors[key] of non-sparse validate on the same
\* data (absent in both when the field passes), sub-objects and arrays of
\* sub-records included.
C22_SparseSameAsFullPerField ==
  (KeyedCall /\ opts.sparse /\ ~opts.strict /\ ~opts.keyCheckOnly) =>
    \A k \in DOMAIN data.c \cap Fields(model) :
      C22_Entry(result, k) = C22_Entry(validate(model, data, NoOptions), k)

----------------------------------------------------------------------------
(* C23 *)

\* The options of the call with strict taken off
C23_WithoutStrict == [opts EXCEPT !.strict = FALSE]

\* C23: if every key of a keyed data object is a field of the model, validate
\* with strict returns exactly the result of the same call without strict
\* (the sparse walker when sparse is set, the full walker otherwise).
C23_StrictAddsNothingOnKnownKeys ==
  (KeyedCall /\ opts.strict /\ UnknownDataKeys = {}) =>
    /\ result = validate(model, data, C23_WithoutStrict)
    /\ ~opts.keyCheckOnly =>
         result = IF opts.sparse THEN _sparse(data, model, opts)
                  ELSE _validate(data, model, opts, EmptyObj)

\* A strict call on data with known keys only that reports a failing field
C23_Witness ==
  /\ KeyedCall /\ opts.strict /\ ~opts.keyCheckOnly /\ ~opts.sparse
  /\ UnknownDataKeys = {}
  /\ DOMAIN data.c # {}
  /\ \E f \in DOMAIN data.c : FailsAlone(f) /\ HasEntry(result.errors, f)

----------------------------------------------------------------------------
(* C24 *)

\* The shape of the entry of field f: a sequence of messages for a leaf
\* field, a nested error tree for a sub-model field
C24_EntryOfField(e, f) ==
  IF Truthy(Get(model.c[f], "model")) THEN e.t \in {"object", "array"}
  ELSE e.t = "array" /\ e.n > 0 /\ \A i \in 1..e.n : Elem(e, i).t = "string"

\* C24: in the result of non-sparse, non-strict validate on a keyed data
\* object, errors is null or a mapping every key of which is a field name of
\* the model, the value under a field being that field's message sequence or
\* nested error tree, also when a sub-object field fails its own key check.
C24_ErrorsAddressedByField ==
  (PlainCall /\ ~IsThrow(result)) =>
    \/ result.errors = Null
    \/ /\ result.errors.t = "object"
       /\ DOMAIN result.errors.c \subseteq Fields(model)
       /\ \A f \in DOMAIN result.errors.c : C24_EntryOfField(result.errors.c[f], f)

----------------------------------------------------------------------------
(* C25 *)

\* The call answered with the result of the key check
C25_KeyCheckAnswer ==
  KeyedCall /\ (opts.keyCheckOnly \/ (opts.strict /\ UnknownDataKeys # {}))

\* The key an unknown key is reported under
C25_Reported(k) == IF Len(k) <= 48 THEN k ELSE SubSeq(k, 1, 45) \o "..."

----------------------------------------------------------------------------
(* C26 *)

\* The failure of the key check on a value that is not a keyed object
C26_InvalidObject == Obj([k \in {"data"} |-> Arr(<< Str("invalidObject") >>)])

\* Field f is a single sub-object field that the walker checks (it is not
\* passed over as an empty optional field) and whose value is not a keyed
\* object
C26_SubObjectNotKeyed(f) ==
  /\ Truthy(Get(model.c[f], "model"))
  /\ ~isArrayField(model.c[f], Get(data, f))
  /\ ~skipField(model.c[f], Get(data, f))
  /\ ~is_object(Get(data, f))

\* The invalidObject failure is produced for field f: as the result of the
\* call or as the entry of the field
C26_ProducedFor(f) ==
  /\ ~IsThrow(result)
  /\ result.valid = FALSE
  /\ \/ result.errors = C26_InvalidObject
     \/ /\ HasEntry(result.errors, f)
        /\ \/ result.errors.c[f] = C26_InvalidObject
           \/ Get(result.errors.c[f], "errors") = C26_InvalidObject

\* C26: with strict or keyCheckOnly set, a data value that is not a keyed
\* object always yields valid = false with errors = {data: ['invalidObject']},
\* whatever the model; the same failure is produced for a single sub-object
\* field whose value is not a keyed object.
C26_NotKeyedIsInvalidObject ==
  /\ (pc = "done" /\ (opts.strict \/ opts.keyCheckOnly) /\ ~is_object(data)) =>
       result = Result(FALSE, C26_InvalidObject)
  /\ PlainCall =>
       \A f \in Fields(model) : C26_SubObjectNotKeyed(f) => C26_ProducedFor(f)

====
